---- MODULE Spec2Model ----
(***************************************************************************)
(* A model of compare_locales.py: the locale-catalog audit.  The script    *)
(* checks that the reference catalog en.json exists, loads and flattens    *)
(* it, walks the sorted directory listing, compares every other *.json     *)
(* catalog with the reference and writes locale_audit.txt.                 *)
(*                                                                         *)
(* Text (file names, keys, key paths, leaf strings) is a sequence of       *)
(* one-character strings, so that startswith, endswith, the dotted join    *)
(* and the placeholder regex are computed character by character.          *)
(***************************************************************************)
EXTENDS Integers, Sequences, FiniteSets, TLC

\* ------------------------------------------------------------------ bounds

\* Most entries a single mapping of an input catalog has.
MaxItems == 2
\* Most entries the locale directory has.
MaxFiles == 4
\* Longest leaf string of the placeholder-extraction inputs.
MaxLen == 6

\* ------------------------------------------------------- program constants

\* [:20] on the sorted key lists of a section.
PreviewLimit == 20
\* [:10] on the interpolation-mismatch lines of a section.
MismatchLimit == 10

\* ------------------------------------------------------------------- text

Range(f) == {f[i] : i \in DOMAIN f}

\* The characters the model's texts use, in code-point order.
CharOrder ==
    <<" ", ".", "a", "b", "c", "d", "e", "f", "g", "i", "j", "l", "n", "o", "p",
      "q", "r", "s", "t", "u", "x", "{", "}">>

Ord(c) == CHOOSE i \in 1..Len(CharOrder) : CharOrder[i] = c

\* Python's < on str: code-point lexicographic order.
LexLess(a, b) ==
    \E i \in 1..Len(b) :
        /\ \A j \in 1..(i - 1) : j <= Len(a) /\ a[j] = b[j]
        /\ (i > Len(a) \/ Ord(a[i]) < Ord(b[i]))

startswith(s, p) == Len(s) >= Len(p) /\ SubSeq(s, 1, Len(p)) = p

endswith(s, p) == Len(s) >= Len(p) /\ SubSeq(s, Len(s) - Len(p) + 1, Len(s)) = p

RECURSIVE InsertSorted(_, _)
InsertSorted(x, seq) ==
    IF seq = <<>> THEN <<x>>
    ELSE IF LexLess(x, Head(seq)) THEN <<x>> \o seq
    ELSE <<Head(seq)>> \o InsertSorted(x, Tail(seq))

\* Variant: the list left in the order it came in.
sorted_unsorted(seq) == seq

\* sorted(list) on a list of str.
RECURSIVE sorted(_)
sorted(seq) == IF seq = <<>> THEN <<>> ELSE InsertSorted(Head(seq), sorted(Tail(seq)))

\* The orders in which a listing or a set iteration can deliver the set S.
RECURSIVE Orders(_)
Orders(S) ==
    IF S = {} THEN {<<>>}
    ELSE UNION {{<<x>> \o o : o \in Orders(S \ {x})} : x \in S}

\* seq[:n]
Take(seq, n) == SubSeq(seq, 1, IF Len(seq) < n THEN Len(seq) ELSE n)

\* ----------------------------------------------------------- JSON values

\* What json.load returns: a str, an int, a bool, None, the float nan, or a
\* dict whose items keep the file's order.
PyStr(s) == [ty |-> "str", s |-> s, n |-> 0, items |-> <<>>]
PyInt(n) == [ty |-> "int", s |-> <<>>, n |-> n, items |-> <<>>]
PyBool(b) == [ty |-> "bool", s |-> <<>>, n |-> IF b THEN 1 ELSE 0, items |-> <<>>]
PyNone == [ty |-> "null", s |-> <<>>, n |-> 0, items |-> <<>>]
PyNaN == [ty |-> "nan", s |-> <<>>, n |-> 0, items |-> <<>>]
PyDict(items) == [ty |-> "dict", s |-> <<>>, n |-> 0, items |-> items]
Item(k, v) == [k |-> k, v |-> v]

\* Python's == on two leaf values: str against str by characters; int and
\* bool by number (True == 1); None only with None; nan with nothing.
PyEq(a, b) ==
    CASE a.ty = "str" /\ b.ty = "str" -> a.s = b.s
      [] a.ty \in {"int", "bool"} /\ b.ty \in {"int", "bool"} -> a.n = b.n
      [] a.ty = "null" /\ b.ty = "null" -> TRUE
      [] OTHER -> FALSE

EmptyMap == [x \in {} |-> PyNone]

\* dict.update: the entries of new replace those of old.
Update(old, new) == new @@ old

\* ---------------------------------------------------------------- get_keys

\* f"{prefix}.{k}" if prefix else k
new_prefix(prefix, k) == IF prefix # <<>> THEN prefix \o <<".">> \o k ELSE k

RECURSIVE get_keys(_, _), get_keys_loop(_, _, _, _)

\* The body of `for k, v in data.items()` from item i on, keys being the
\* dict built so far.
get_keys_loop(items, i, prefix, keys) ==
    IF i > Len(items) THEN keys
    ELSE LET k == items[i].k
             v == items[i].v
             np == new_prefix(prefix, k)
         IN  get_keys_loop(items, i + 1, prefix,
                 IF v.ty = "dict"
                 THEN Update(keys, get_keys(v, np))
                 ELSE Update(keys, np :> v))

get_keys(data, prefix) == get_keys_loop(data.items, 1, prefix, EmptyMap)

\* ---------------------------------------------------- extract_placeholders

Braces == {"{", "}"}

\* Where [^{}]+ started at position j has to stop: the first brace at or
\* after j, or Len(s) + 1.
RECURSIVE NextBrace(_, _)
NextBrace(s, j) ==
    IF j > Len(s) \/ s[j] \in Braces THEN j ELSE NextBrace(s, j + 1)

\* Variant: the pattern \{[^{}]*\}, which also matches {}.
MatchEnd_star(s, i) ==
    IF s[i] # "{" THEN 0
    ELSE LET j == NextBrace(s, i + 1)
         IN  IF j <= Len(s) /\ s[j] = "}" THEN j ELSE 0

\* The end of the match of \{[^{}]+\} that starts at position i, 0 if none.
MatchEnd(s, i) ==
    IF s[i] # "{" THEN 0
    ELSE LET j == NextBrace(s, i + 1)
         IN  IF j <= Len(s) /\ s[j] = "}" /\ j > i + 1 THEN j ELSE 0

\* re.findall: leftmost matches, left to right, not overlapping.
RECURSIVE findall(_, _)
findall(s, i) ==
    IF i > Len(s) THEN <<>>
    ELSE LET e == MatchEnd(s, i)
         IN  IF e = 0 THEN findall(s, i + 1)
             ELSE <<SubSeq(s, i, e)>> \o findall(s, e + 1)

extract_placeholders(text) ==
    IF text.ty # "str" THEN {} ELSE Range(findall(text.s, 1))

\* -------------------------------------------------------------- comparator

en_name == <<"e", "n", ".", "j", "s", "o", "n">>
json_suffix == <<".", "j", "s", "o", "n">>
app_prefix == <<"a", "p", "p", ".">>
languages_prefix == <<"l", "a", "n", "g", "u", "a", "g", "e", "s", ".">>

\* filename.endswith('.json') and filename != 'en.json'
IsTarget(filename) == endswith(filename, json_suffix) /\ filename # en_name

\* Variant: the difference taken the wrong way round.
Missing_swapped(ek, ks) == ks \ ek

\* missing = en_keys - keys
Missing(ek, ks) == ek \ ks

\* extra = keys - en_keys
Extra(ek, ks) == ks \ ek

\* Variant: without the test for the empty string.
IsUntranslated_noempty(R, T, k) ==
    /\ PyEq(R[k], T[k])
    /\ ~startswith(k, app_prefix)
    /\ ~startswith(k, languages_prefix)

\* The condition under which the loop appends k to same_as_en.
IsUntranslated(R, T, k) ==
    /\ PyEq(R[k], T[k])
    /\ ~PyEq(R[k], PyStr(<<>>))
    /\ ~startswith(k, app_prefix)
    /\ ~startswith(k, languages_prefix)

\* Variant: only the reference placeholders are looked for in the target.
PlaceholdersDiffer_subset(en_p, loc_p) == ~(en_p \subseteq loc_p)

\* en_placeholders != loc_placeholders, on two sets
PlaceholdersDiffer(en_p, loc_p) == en_p # loc_p

IsMismatch(R, T, k) ==
    PlaceholdersDiffer(extract_placeholders(R[k]), extract_placeholders(T[k]))

\* Variant: the lists created once, before the loop over the files.
ResetList_keep(prev) == prev

\* same_as_en = [] and interpolation_mismatches = [] at the top of each pass.
ResetList(prev) == <<>>

\* The keys the loop appended to same_as_en, the loop visiting the shared
\* keys in the order ord.
RECURSIVE SameAsEn(_, _, _)
SameAsEn(R, T, ord) ==
    IF ord = <<>> THEN <<>>
    ELSE (IF IsUntranslated(R, T, Head(ord)) THEN <<Head(ord)>> ELSE <<>>)
         \o SameAsEn(R, T, Tail(ord))

\* The (k, en_placeholders, loc_placeholders) tuples the loop appended.
RECURSIVE Mismatches(_, _, _)
Mismatches(R, T, ord) ==
    IF ord = <<>> THEN <<>>
    ELSE LET k == Head(ord)
         IN  (IF IsMismatch(R, T, k)
              THEN <<[k |-> k, en_p |-> extract_placeholders(R[k]),
                      loc_p |-> extract_placeholders(T[k])]>>
              ELSE <<>>)
             \o Mismatches(R, T, Tail(ord))

\* ------------------------------------------------------------------ report

\* One line of the report.
Line(kind, file, n, keys, detail) ==
    [line |-> kind, file |-> file, n |-> n, keys |-> keys, detail |-> detail]

RECURSIVE MismatchLines(_)
MismatchLines(ms) ==
    IF ms = <<>> THEN <<>>
    ELSE <<Line("mismatch", <<>>, 0, <<>>, <<Head(ms)>>)>> \o MismatchLines(Tail(ms))

\* The string res built for one target, line by line; list(a set) comes in
\* an order the sort then fixes.
Section(filename, miss, same, mism, ext) ==
    <<Line("header", filename, 0, <<>>, <<>>)>>
    \o (IF miss # {}
        THEN <<Line("missing", <<>>, Cardinality(miss),
                    Take(sorted(CHOOSE o \in Orders(miss) : TRUE), PreviewLimit), <<>>)>>
        ELSE <<Line("no_missing", <<>>, 0, <<>>, <<>>)>>)
    \o (IF same # <<>>
        THEN <<Line("untranslated", <<>>, Len(same),
                    Take(sorted(same), PreviewLimit), <<>>)>>
        ELSE <<>>)
    \o (IF mism # <<>>
        THEN <<Line("mismatches", <<>>, Len(mism), <<>>, <<>>)>>
             \o MismatchLines(Take(mism, MismatchLimit))
        ELSE <<>>)
    \o (IF ext # {}
        THEN <<Line("extra", <<>>, Cardinality(ext),
                    Take(sorted(CHOOSE o \in Orders(ext) : TRUE), PreviewLimit), <<>>)>>
        ELSE <<>>)

\* "\n".join(results): every res ends with a newline, so the join leaves an
\* empty line between two sections.
RECURSIVE Join(_)
Join(rs) ==
    IF rs = <<>> THEN <<>>
    ELSE IF Len(rs) = 1 THEN Head(rs)
    ELSE Head(rs) \o <<Line("blank", <<>>, 0, <<>>, <<>>)>> \o Join(Tail(rs))

\* ------------------------------------------------------------------- state

VARIABLES
    dir,                      \* src/locales: file name -> what opening and parsing it gives
    pc,                       \* where the script is
    opened,                   \* the files opened so far, in order
    en_data,                  \* json.load of en.json
    en_keys_dict,             \* the reference flat catalog
    en_keys,                  \* its key set
    listing,                  \* sorted(os.listdir(locales_dir))
    idx,                      \* the position of the for loop in listing
    filename,                 \* the loop variable
    data,                     \* json.load of the current target
    keys_dict,                \* its flat catalog
    keys,                     \* its key set
    missing,
    extra,
    same_as_en,
    interpolation_mismatches,
    en_placeholders,          \* the two sets of the last key the inner loop visited
    loc_placeholders,
    results,                  \* the sections appended so far
    report,                   \* the lines of locale_audit.txt
    report_written,           \* locale_audit.txt exists
    stdout,
    stderr,
    exit_status               \* -1 while the script runs

refVars == <<en_data, en_keys_dict, en_keys>>
loopVars == <<listing, idx, filename>>
targetVars ==
    <<data, keys_dict, keys, missing, extra, same_as_en, interpolation_mismatches,
      en_placeholders, loc_placeholders>>
outVars == <<report, report_written, stdout, stderr, exit_status>>
vars == <<dir, pc, opened, refVars, loopVars, targetVars, results, outVars>>

\* ------------------------------------------------------------------ inputs

File(st, d) == [st |-> st, data |-> d]
Ok(d) == File("ok", d)
BadJson == File("badjson", PyNone)
Unreadable == File("unreadable", PyNone)

Choice(k, vs) == [k |-> k, vs |-> vs]

\* The item lists that take, for each choice from the i-th on and in that
\* order, either no entry or the key with one of its values.
RECURSIVE ItemLists(_, _)
ItemLists(choices, i) ==
    IF i > Len(choices) THEN {<<>>}
    ELSE LET rest == ItemLists(choices, i + 1)
         IN  rest \cup {<<Item(choices[i].k, v)>> \o r : v \in choices[i].vs, r \in rest}

Catalogs(choices) == {PyDict(it) : it \in {x \in ItemLists(choices, 1) : Len(x) <= MaxItems}}

de_name == <<"d", "e", ".", "j", "s", "o", "n">>
fr_name == <<"f", "r", ".", "j", "s", "o", "n">>
it_name == <<"i", "t", ".", "j", "s", "o", "n">>
txt_name == <<"a", ".", "t", "x", "t">>
FileNames == {en_name, de_name, fr_name, it_name, txt_name}

K_a == <<"a">>
K_b == <<"b">>
K_n == <<"n">>
K_app == <<"a", "p", "p">>
K_languages == <<"l", "a", "n", "g", "u", "a", "g", "e", "s">>
K_a_dot_b == <<"a", ".", "b">>

T_pq == <<"{", "p", "}", "{", "q", "}">>
T_qpp == <<"{", "q", "}", "{", "p", "}", "{", "p", "}">>

\* The catalogs of the whole-run specification.
RunCatalogs ==
    Catalogs(<<Choice(K_a, {PyStr(T_pq), PyStr(T_qpp)}),
               Choice(K_b, {PyStr(<<>>)})>>)

RefContents == {BadJson, Ok(PyInt(1))} \cup {Ok(c) : c \in RunCatalogs}
TargetContents == {BadJson, Unreadable, Ok(PyInt(1))} \cup {Ok(c) : c \in RunCatalogs}

ContentsFor(name) ==
    IF name = en_name THEN RefContents
    ELSE IF name = txt_name THEN {BadJson}
    ELSE TargetContents

RunDirs ==
    UNION {{d \in [D -> RefContents \cup TargetContents] :
                \A name \in D : d[name] \in ContentsFor(name)} :
           D \in {X \in SUBSET FileNames : Cardinality(X) <= MaxFiles}}

\* The catalogs of the comparison specification: plain and non-string
\* leaves under a, a leaf or a nested mapping under app, a nested mapping
\* under languages.
LeafN(v) == PyDict(<<Item(K_n, v)>>)

CompareCatalogs ==
    Catalogs(<<Choice(K_a, {PyStr(<<>>), PyStr(T_pq), PyStr(T_qpp), PyInt(1),
                            PyBool(TRUE), PyNaN}),
               Choice(K_app, {PyStr(T_pq), LeafN(PyStr(<<>>)), LeafN(PyStr(T_pq)),
                              LeafN(PyStr(T_qpp))}),
               Choice(K_languages, {LeafN(PyStr(T_pq)), PyDict(<<>>)})>>)

\* The catalogs of the flattening specification: keys with a dot, the empty
\* key, three levels, both orders of the colliding entries.
FlatLeaves == {PyStr(<<"x">>), PyStr(<<"y">>)}

FlattenNested ==
    {PyDict(<<>>)} \cup {PyDict(<<Item(K_b, v)>>) : v \in FlatLeaves}
    \cup {PyDict(<<Item(K_b, PyDict(<<Item(K_n, v)>>))>>) : v \in FlatLeaves}
    \cup {PyDict(<<Item(K_a, v), Item(K_b, w)>>) : v \in FlatLeaves, w \in FlatLeaves}

FlattenCatalogs ==
    Catalogs(<<Choice(K_a, FlatLeaves \cup FlattenNested),
               Choice(K_a_dot_b, FlatLeaves),
               Choice(<<>>, {PyDict(<<Item(K_a, v)>>) : v \in FlatLeaves})>>)
    \cup Catalogs(<<Choice(K_a_dot_b, FlatLeaves),
                    Choice(K_a, FlatLeaves \cup FlattenNested)>>)

\* The leaf strings of the extraction specification.
Alphabet == {"{", "}", "p", " "}
Texts == UNION {[1..n -> Alphabet] : n \in 0..MaxLen}
ExtractLeaves == {PyStr(s) : s \in Texts} \cup {PyInt(1), PyBool(TRUE), PyNone}

\* ------------------------------------------------------------------- Init

InitRest ==
    /\ pc = "check"
    /\ opened = <<>>
    /\ en_data = PyNone
    /\ en_keys_dict = EmptyMap
    /\ en_keys = {}
    /\ listing = <<>>
    /\ idx = 0
    /\ filename = <<>>
    /\ data = PyNone
    /\ keys_dict = EmptyMap
    /\ keys = {}
    /\ missing = {}
    /\ extra = {}
    /\ same_as_en = <<>>
    /\ interpolation_mismatches = <<>>
    /\ en_placeholders = {}
    /\ loc_placeholders = {}
    /\ results = <<>>
    /\ report = <<>>
    /\ report_written = FALSE
    /\ stdout = <<>>
    /\ stderr = <<>>
    /\ exit_status = -1

Init == dir \in RunDirs /\ InitRest

InitCompare ==
    /\ dir \in {(en_name :> Ok(R)) @@ (de_name :> Ok(T)) :
                    R \in CompareCatalogs, T \in CompareCatalogs}
    /\ InitRest

InitFlatten == dir \in {(en_name :> Ok(c)) : c \in FlattenCatalogs} /\ InitRest

InitExtract ==
    /\ dir \in {(en_name :> Ok(PyDict(<<Item(K_a, v)>>)))
                    @@ (de_name :> Ok(PyDict(<<Item(K_a, w)>>))) :
                 v \in ExtractLeaves, w \in {PyInt(1), PyStr(T_pq)}}
    /\ InitRest

\* ---------------------------------------------------------------- actions

\* An uncaught exception: the traceback goes to stderr, the status is 1.
Crash ==
    /\ pc' = "crashed"
    /\ stderr' = Append(stderr, "Traceback")
    /\ exit_status' = 1
    /\ UNCHANGED <<report, report_written, stdout>>

\* Lines 8-10: en.json is not there.
ReferenceMissing ==
    /\ pc = "check"
    /\ en_name \notin DOMAIN dir
    /\ stdout' = Append(stdout, "Error: src/locales/en.json not found")
    /\ exit_status' = 1
    /\ pc' = "exited"
    /\ UNCHANGED <<dir, opened, refVars, loopVars, targetVars, results,
                   report, report_written, stderr>>

\* Lines 8-13: en.json is there and parses.
LoadReference ==
    /\ pc = "check"
    /\ en_name \in DOMAIN dir
    /\ dir[en_name].st = "ok"
    /\ opened' = Append(opened, en_name)
    /\ en_data' = dir[en_name].data
    /\ pc' = "flatten"
    /\ UNCHANGED <<dir, en_keys_dict, en_keys, loopVars, targetVars, results, outVars>>

\* Lines 8-13: en.json is there, and json.load raises.
LoadReferenceFails ==
    /\ pc = "check"
    /\ en_name \in DOMAIN dir
    /\ dir[en_name].st # "ok"
    /\ opened' = Append(opened, en_name)
    /\ Crash
    /\ UNCHANGED <<dir, refVars, loopVars, targetVars, results>>

\* Lines 30-33.
FlattenReference ==
    /\ pc = "flatten"
    /\ en_data.ty = "dict"
    /\ en_keys_dict' = get_keys(en_data, <<>>)
    /\ en_keys' = DOMAIN en_keys_dict'
    /\ results' = <<>>
    /\ pc' = "list"
    /\ UNCHANGED <<dir, opened, en_data, loopVars, targetVars, outVars>>

\* Line 30: en.json holds no mapping, data.items() raises.
FlattenReferenceFails ==
    /\ pc = "flatten"
    /\ en_data.ty # "dict"
    /\ Crash
    /\ UNCHANGED <<dir, opened, refVars, loopVars, targetVars, results>>

\* Line 35: os.listdir gives the names in any order, sorted orders them.
ListLocales ==
    /\ pc = "list"
    /\ \E raw \in Orders(DOMAIN dir) : listing' = sorted(raw)
    /\ idx' = 1
    /\ pc' = "loop"
    /\ UNCHANGED <<dir, opened, refVars, filename, targetVars, results, outVars>>

\* Lines 35-36: the entry is en.json or no *.json file.
SkipEntry ==
    /\ pc = "loop"
    /\ idx <= Len(listing)
    /\ ~IsTarget(listing[idx])
    /\ filename' = listing[idx]
    /\ idx' = idx + 1
    /\ UNCHANGED <<dir, pc, opened, refVars, listing, targetVars, results, outVars>>

\* Lines 35-75 for a target that loads: flatten, compare, append the section.
CompareTarget ==
    /\ pc = "loop"
    /\ idx <= Len(listing)
    /\ IsTarget(listing[idx])
    /\ dir[listing[idx]].st = "ok"
    /\ dir[listing[idx]].data.ty = "dict"
    /\ filename' = listing[idx]
    /\ opened' = Append(opened, listing[idx])
    /\ data' = dir[listing[idx]].data
    /\ keys_dict' = get_keys(data', <<>>)
    /\ keys' = DOMAIN keys_dict'
    /\ missing' = Missing(en_keys, keys')
    /\ extra' = Extra(en_keys, keys')
    /\ \E ord \in Orders(en_keys \cap keys') :
          /\ same_as_en' = ResetList(same_as_en) \o SameAsEn(en_keys_dict, keys_dict', ord)
          /\ interpolation_mismatches' =
                 ResetList(interpolation_mismatches)
                 \o Mismatches(en_keys_dict, keys_dict', ord)
          /\ IF ord = <<>>
             THEN UNCHANGED <<en_placeholders, loc_placeholders>>
             ELSE /\ en_placeholders' = extract_placeholders(en_keys_dict[ord[Len(ord)]])
                  /\ loc_placeholders' = extract_placeholders(keys_dict'[ord[Len(ord)]])
    /\ results' = Append(results,
                         Section(filename', missing', same_as_en',
                                 interpolation_mismatches', extra'))
    /\ idx' = idx + 1
    /\ UNCHANGED <<dir, pc, refVars, listing, outVars>>

\* Lines 37-39 for a target that does not load: open raises, json.load
\* raises, or the file holds no mapping and data.items() raises.
TargetFails ==
    /\ pc = "loop"
    /\ idx <= Len(listing)
    /\ IsTarget(listing[idx])
    /\ \/ dir[listing[idx]].st = "unreadable" /\ UNCHANGED <<opened, data>>
       \/ dir[listing[idx]].st = "badjson"
          /\ opened' = Append(opened, listing[idx])
          /\ UNCHANGED data
       \/ dir[listing[idx]].st = "ok" /\ dir[listing[idx]].data.ty # "dict"
          /\ opened' = Append(opened, listing[idx])
          /\ data' = dir[listing[idx]].data
    /\ filename' = listing[idx]
    /\ Crash
    /\ UNCHANGED <<dir, refVars, listing, idx, keys_dict, keys, missing, extra,
                   same_as_en, interpolation_mismatches, en_placeholders,
                   loc_placeholders, results>>

\* Lines 77-78, and the script ends.
WriteReport ==
    /\ pc = "loop"
    /\ idx > Len(listing)
    /\ report' = Join(results)
    /\ report_written' = TRUE
    /\ exit_status' = 0
    /\ pc' = "done"
    /\ UNCHANGED <<dir, opened, refVars, loopVars, targetVars, results, stdout, stderr>>

Next ==
    \/ ReferenceMissing
    \/ LoadReference
    \/ LoadReferenceFails
    \/ FlattenReference
    \/ FlattenReferenceFails
    \/ ListLocales
    \/ SkipEntry
    \/ CompareTarget
    \/ TargetFails
    \/ WriteReport

\* A run in which every file loads.
NextLoaded ==
    \/ LoadReference
    \/ FlattenReference
    \/ ListLocales
    \/ SkipEntry
    \/ CompareTarget
    \/ WriteReport

\* A run over a directory that holds the reference alone.
NextAlone ==
    \/ LoadReference
    \/ FlattenReference
    \/ ListLocales
    \/ SkipEntry
    \/ WriteReport

Spec == Init /\ [][Next]_vars
SpecCompare == InitCompare /\ [][NextLoaded]_vars
SpecFlatten == InitFlatten /\ [][NextAlone]_vars
SpecExtract == InitExtract /\ [][NextLoaded]_vars

\* ------------------------------------------------------------- properties

\* The globals of the comparison hold the values of the last target compared.
Compared == results # <<>>

Shared == en_keys \cap keys

Exempt(k) == startswith(k, app_prefix) \/ startswith(k, languages_prefix)

\* The spans s[i..j] that open with a brace, close with a brace and hold at
\* least one character, none of them a brace, in between.
PlaceholderSet(v) ==
    IF v.ty # "str" THEN {}
    ELSE {SubSeq(v.s, q[1], q[2]) :
            q \in {r \in (1..Len(v.s)) \X (1..Len(v.s)) :
                      /\ r[1] + 1 < r[2]
                      /\ v.s[r[1]] = "{"
                      /\ v.s[r[2]] = "}"
                      /\ \A m \in (r[1] + 1)..(r[2] - 1) : v.s[m] \notin Braces}}

NoRepeat(seq) == \A i, j \in 1..Len(seq) : i # j => seq[i] # seq[j]

MismatchKeys == [i \in 1..Len(interpolation_mismatches) |-> interpolation_mismatches[i].k]

Terminated == pc \in {"done", "exited", "crashed"}

Targets == {f \in DOMAIN dir : IsTarget(f)}

Loads(f) == dir[f].st = "ok" /\ dir[f].data.ty = "dict"

\* The files of the header lines of the report, in the report's order.
RECURSIVE Headers(_)
Headers(lines) ==
    IF lines = <<>> THEN <<>>
    ELSE (IF Head(lines).line = "header" THEN <<Head(lines).file>> ELSE <<>>)
         \o Headers(Tail(lines))

\* C1: when a target file fails to load (it does not parse, cannot be read,
\* or holds no mapping) the run does not abort: the report is written and
\* has a section for every other target.  (The report has no line kind for
\* the note of a failure, so the note is not part of the formula.)
C1_FaultIsolation ==
    (/\ Terminated
     /\ en_name \in DOMAIN dir
     /\ Loads(en_name)
     /\ \E f \in Targets : ~Loads(f))
    => /\ report_written
       /\ \A f \in Targets : Loads(f) => f \in Range(Headers(report))

\* C2: when en.json does not exist the run reports an error on the error
\* stream and ends with status 1, no target loaded or compared and no
\* report written.
C2_MissingReferenceOnStderr ==
    (Terminated /\ en_name \notin DOMAIN dir)
    => /\ stderr # <<>>
       /\ exit_status = 1
       /\ opened = <<>>
       /\ results = <<>>
       /\ ~report_written

\* C3: missing and the shared keys make up keys(R), extra and the shared
\* keys make up keys(T), and missing, extra and the shared keys are pairwise
\* disjoint: missing = keys(R) - keys(T), extra = keys(T) - keys(R).
C3_KeyPartition ==
    Compared
    => /\ en_keys = DOMAIN en_keys_dict
       /\ keys = DOMAIN keys_dict
       /\ missing \cup Shared = en_keys
       /\ extra \cup Shared = keys
       /\ missing \cap extra = {}
       /\ missing \cap Shared = {}
       /\ extra \cap Shared = {}

C3_Witness ==
    /\ Compared
    /\ missing # {}
    /\ extra # {}
    /\ Shared # {}

\* C4: k is in untranslated exactly when k is a shared key, R[k] is exactly
\* equal to T[k] (the same value of the same type; NaN equals nothing), R[k]
\* is not the empty string and k has no excluded prefix.
C4_UntranslatedIffIdentical ==
    Compared
    => Range(same_as_en) =
           {k \in Shared :
               /\ en_keys_dict[k] = keys_dict[k]
               /\ en_keys_dict[k].ty # "nan"
               /\ en_keys_dict[k] # PyStr(<<>>)
               /\ ~Exempt(k)}

\* C5: k is reported in interpolation_mismatches, once and with both
\* placeholder sets, exactly when k is a shared key and the placeholder sets
\* of R[k] and T[k] differ as sets; a key with two identical values is never
\* reported.
C5_MismatchIffSetsDiffer ==
    Compared
    => /\ NoRepeat(MismatchKeys)
       /\ Range(MismatchKeys) =
              {k \in Shared : PlaceholderSet(en_keys_dict[k]) # PlaceholderSet(keys_dict[k])}
       /\ \A i \in 1..Len(interpolation_mismatches) :
              LET m == interpolation_mismatches[i]
              IN  /\ m.en_p = PlaceholderSet(en_keys_dict[m.k])
                  /\ m.loc_p = PlaceholderSet(keys_dict[m.k])
                  /\ en_keys_dict[m.k] # keys_dict[m.k]

\* Two shared keys: one whose strings differ in the order and the number of
\* their tokens and is not reported, one that is reported.
C5_Witness ==
    /\ Compared
    /\ interpolation_mismatches # <<>>
    /\ \E k \in Shared \ Range(MismatchKeys) :
          /\ en_keys_dict[k] = PyStr(T_pq)
          /\ keys_dict[k] = PyStr(T_qpp)

RECURSIVE LeafCount(_)
LeafCount(v) ==
    IF v.ty # "dict" THEN 1
    ELSE IF v.items = <<>> THEN 0
    ELSE LeafCount(Head(v.items).v) + LeafCount(PyDict(Tail(v.items)))

\* C6: flattening gives one entry per leaf: no two leaves share a key path,
\* so the flat catalog has as many entries as the tree has leaves.
C6_OneEntryPerLeaf ==
    pc \in {"list", "loop", "done"}
    => Cardinality(DOMAIN en_keys_dict) = LeafCount(en_data)

\* The target is a structural copy of the reference.
IsCopy == dir[de_name].data = dir[en_name].data

\* C7, as stated: for a structural copy missing, extra and
\* interpolation_mismatches are empty and untranslated is the set of all
\* shared keys without an excluded prefix.
C7_CopyAllShared ==
    (Compared /\ IsCopy)
    => /\ missing = {}
       /\ extra = {}
       /\ interpolation_mismatches = <<>>
       /\ Range(same_as_en) = {k \in Shared : ~Exempt(k)}

\* C7, amended: for a structural copy missing, extra and
\* interpolation_mismatches are empty and untranslated is the set of the
\* shared keys without an excluded prefix whose value is neither the empty
\* string nor NaN.
C7_CopyNonEmptyShared ==
    (Compared /\ IsCopy)
    => /\ missing = {}
       /\ extra = {}
       /\ interpolation_mismatches = <<>>
       /\ Range(same_as_en) =
              {k \in Shared :
                  /\ ~Exempt(k)
                  /\ en_keys_dict[k] # PyStr(<<>>)
                  /\ en_keys_dict[k].ty # "nan"}

\* A copy with an empty leaf next to a flagged one and an exempt one.
C7_Witness ==
    /\ Compared
    /\ IsCopy
    /\ same_as_en # <<>>
    /\ \E k \in Shared : en_keys_dict[k] = PyStr(<<>>)
    /\ \E k \in Shared : Exempt(k)

\* C8: the report of a completed run has one section per target file (each
\* *.json entry of the directory but en.json, and nothing else), in the
\* lexicographic order of the file names.
C8_SectionsInOrder ==
    pc = "done"
    => LET h == Headers(report)
       IN  /\ Range(h) = {f \in DOMAIN dir : endswith(f, json_suffix) /\ f # en_name}
           /\ \A i, j \in 1..Len(h) : i < j => LexLess(h[i], h[j])

C8_Witness ==
    /\ pc = "done"
    /\ Len(Headers(report)) = 2
    /\ txt_name \in DOMAIN dir

\* C9: extract_placeholders returns the set of the distinct spans {...}
\* with no brace and at least one character between the braces: repeated
\* tokens collapse, a string without such a span gives the empty set, and so
\* does a leaf that is no string.
C9_ExtractedSet ==
    Compared
    => /\ en_placeholders = PlaceholderSet(en_keys_dict[K_a])
       /\ loc_placeholders = PlaceholderSet(keys_dict[K_a])

\* The token {p} twice in one string.
C9_Witness ==
    /\ Compared
    /\ en_keys_dict[K_a] = PyStr(<<"{", "p", "}", "{", "p", "}">>)
    /\ en_placeholders = {<<"{", "p", "}">>}

\* What comparing the flat catalogs R and T alone gives.
AloneUntranslated(R, T) == {k \in DOMAIN R \cap DOMAIN T : IsUntranslated(R, T, k)}
AloneMismatched(R, T) == {k \in DOMAIN R \cap DOMAIN T : IsMismatch(R, T, k)}

\* The number on the line of the given kind in a section, 0 without one.
CountOn(section, kind) ==
    IF \E i \in 1..Len(section) : section[i].line = kind
    THEN section[CHOOSE i \in 1..Len(section) : section[i].line = kind].n
    ELSE 0

\* The four defect sets of a target are those of the reference and that
\* target alone, in the globals after its comparison and in its section.
TargetsIndependent ==
    /\ Compared =>
          LET T == get_keys(dir[results[Len(results)][1].file].data, <<>>)
          IN  /\ missing = DOMAIN en_keys_dict \ DOMAIN T
              /\ extra = DOMAIN T \ DOMAIN en_keys_dict
              /\ NoRepeat(same_as_en)
              /\ Range(same_as_en) = AloneUntranslated(en_keys_dict, T)
              /\ NoRepeat(MismatchKeys)
              /\ Range(MismatchKeys) = AloneMismatched(en_keys_dict, T)
    /\ \A i \in 1..Len(results) :
          LET T == get_keys(dir[results[i][1].file].data, <<>>)
          IN  /\ CountOn(results[i], "missing") = Cardinality(DOMAIN en_keys_dict \ DOMAIN T)
              /\ CountOn(results[i], "extra") = Cardinality(DOMAIN T \ DOMAIN en_keys_dict)
              /\ CountOn(results[i], "untranslated")
                     = Cardinality(AloneUntranslated(en_keys_dict, T))
              /\ CountOn(results[i], "mismatches")
                     = Cardinality(AloneMismatched(en_keys_dict, T))

ReferenceKept ==
    pc \in {"list", "loop"} => (en_keys_dict' = en_keys_dict /\ en_keys' = en_keys)

\* C10: once computed, the reference flat catalog and its key set never
\* change, and the defect sets of every target are those of the reference
\* and that target alone, whatever was compared before it.
C10_ReferenceFixedTargetsIndependent ==
    [](TargetsIndependent) /\ [][ReferenceKept]_vars

\* Two targets compared, the first with an untranslated key and a
\* mismatch-free second one without.
C10_Witness ==
    /\ pc = "done"
    /\ Len(results) = 2
    /\ CountOn(results[1], "untranslated") > 0
    /\ CountOn(results[2], "untranslated") = 0

====
